---- MODULE Spec2Model ----
(***************************************************************************)
(* Model of src/agent.py: the session coroutine `entrypoint` of the voice  *)
(* agent worker and its interruption policy.                               *)
(*                                                                         *)
(* entrypoint is an asyncio coroutine.  Between two awaits its code runs   *)
(* without interleaving, so the state of the model is the state of the     *)
(* session each time the coroutine is suspended: `pc` names the await the  *)
(* coroutine is suspended in, and every action is "the awaited call        *)
(* completes (returns or raises) and the code runs up to the next await".  *)
(* Every call into the framework and every completion is appended to       *)
(* `calls`, with the value agent.allow_interruptions has at that moment.   *)
(*                                                                         *)
(* A raised exception is an instance of Exception (what `except Exception` *)
(* catches); task cancellation is not modelled.                            *)
(***************************************************************************)
EXTENDS Naturals, Sequences, FiniteSets

VARIABLES
    pc,                    \* the await entrypoint is suspended in, or "done" / "raised"
    agent_created,         \* TRUE once lines 41-53 have run
    first_response_done,   \* the local of line 41
    allow_interruptions,   \* agent.allow_interruptions
    turn,                  \* number of utterances agent.listen() has yielded
    text,                  \* the loop variable `text`
    response,              \* the local `response`
    collected,             \* number of metrics usage_collector has collected
    calls                  \* history of framework calls and their completions

vars == <<pc, agent_created, first_response_done, allow_interruptions,
          turn, text, response, collected, calls>>

\* Bounds of the model.
MaxUtterances == 3
MaxMetrics == 1

\* Inputs.
Texts == {"hello", "what's the weather"}
Responses == {"sunny"}
Outcomes == {"ok", "exc"}

\* Positions of the coroutine.
StartupPcs == {"connect", "wait_for_participant", "greeting"}
FirstPcs == {"first_respond", "first_say"}
SubsequentPcs == {"tts_stop", "respond", "say"}
TurnPcs == FirstPcs \cup SubsequentPcs
SuspendedPcs == StartupPcs \cup {"listen"} \cup TurnPcs

\* One entry of the history: a call into the framework (ev = "call"), its
\* completion (ev = "ok" / "exc"), or agent.listen() yielding (ev = "yield") or
\* being exhausted (ev = "end").  `flag` is the value of
\* agent.allow_interruptions when the event happens.
Event(op, ev, t) ==
    [op |-> op, ev |-> ev, turn |-> t, flag |-> allow_interruptions]

\* The same, with the value the code has just assigned to the flag.
EventF(op, ev, t, flag) ==
    [op |-> op, ev |-> ev, turn |-> t, flag |-> flag]

\* await agent.say(..., allow_interruptions=kw)
SayCall(t, kw, flag) ==
    [op |-> "say", ev |-> "call", turn |-> t, flag |-> flag,
     allow_interruptions |-> kw]

Last(s) == s[Len(s)]

Init ==
    /\ pc = "connect"
    /\ agent_created = FALSE
    /\ first_response_done = FALSE
    /\ allow_interruptions = FALSE
    /\ turn = 0
    /\ text = ""
    /\ response = ""
    /\ collected = 0
    /\ calls = << Event("connect", "call", 0) >>

\* A raise outside any try block: the exception leaves entrypoint.
Propagate(op, t) ==
    /\ pc' = "raised"
    /\ calls' = Append(calls, Event(op, "exc", t))

\* `async for text in agent.listen()` asks for the next utterance.
AwaitListen(done, flag) ==
    /\ pc' = "listen"
    /\ calls' = calls \o done \o << EventF("listen", "call", turn, flag) >>

\* line 36 completes; line 38 is awaited.
ConnectReturns(o) ==
    /\ pc = "connect"
    /\ IF o = "ok"
       THEN /\ pc' = "wait_for_participant"
            /\ calls' = calls \o << Event("connect", "ok", 0),
                                    Event("wait_for_participant", "call", 0) >>
       ELSE Propagate("connect", 0)
    /\ UNCHANGED <<agent_created, first_response_done, allow_interruptions,
                   turn, text, response, collected>>

\* line 68 without its await: the loop starts while the greeting is spoken.
StartAgent_GreetingNotAwaited(s) ==
    /\ first_response_done' = FALSE
    /\ agent_created' = TRUE
    /\ allow_interruptions' = FALSE
    /\ IF s = "ok"
       THEN /\ pc' = "listen"
            /\ calls' = calls \o << Event("wait_for_participant", "ok", 0),
                                    EventF("start", "call", 0, FALSE),
                                    EventF("start", "ok", 0, FALSE),
                                    SayCall(0, FALSE, FALSE),
                                    EventF("listen", "call", 0, FALSE) >>
       ELSE /\ pc' = "raised"
            /\ calls' = calls \o << Event("wait_for_participant", "ok", 0),
                                    EventF("start", "call", 0, FALSE),
                                    EventF("start", "exc", 0, FALSE) >>

\* lines 41-68 once the participant is there: the flag of line 41, the agent
\* of lines 43-53, agent.start (s is its outcome) and the greeting.
StartAgent(s) ==
    /\ first_response_done' = FALSE
    /\ agent_created' = TRUE
    /\ allow_interruptions' = FALSE
    /\ IF s = "ok"
       THEN /\ pc' = "greeting"
            /\ calls' = calls \o << Event("wait_for_participant", "ok", 0),
                                    EventF("start", "call", 0, FALSE),
                                    EventF("start", "ok", 0, FALSE),
                                    SayCall(0, FALSE, FALSE) >>
       ELSE /\ pc' = "raised"
            /\ calls' = calls \o << Event("wait_for_participant", "ok", 0),
                                    EventF("start", "call", 0, FALSE),
                                    EventF("start", "exc", 0, FALSE) >>

\* line 38 completes (o), then lines 39-68 run up to the greeting's await.
ParticipantJoins(o, s) ==
    /\ pc = "wait_for_participant"
    /\ IF o = "ok"
       THEN StartAgent(s)
       ELSE /\ s = "ok"
            /\ Propagate("wait_for_participant", 0)
            /\ UNCHANGED <<agent_created, first_response_done, allow_interruptions>>
    /\ UNCHANGED <<turn, text, response, collected>>

\* line 68 inside a try that swallows: a failed greeting still enters the loop.
GreetingReturns_Swallowed(o) ==
    /\ pc = "greeting"
    /\ AwaitListen(<< Event("say", o, 0) >>, allow_interruptions)
    /\ UNCHANGED <<agent_created, first_response_done, allow_interruptions,
                   turn, text, response, collected>>

\* line 68 completes; the loop of line 75 asks for the first utterance.
GreetingReturns(o) ==
    /\ pc = "greeting"
    /\ IF o = "ok"
       THEN AwaitListen(<< Event("say", "ok", 0) >>, allow_interruptions)
       ELSE Propagate("say", 0)
    /\ UNCHANGED <<agent_created, first_response_done, allow_interruptions,
                   turn, text, response, collected>>

\* BeginFirstTurn without the assignment of line 81.
BeginFirstTurn_NoDisable(t) ==
    /\ UNCHANGED allow_interruptions
    /\ pc' = "first_respond"
    /\ calls' = calls \o << Event("listen", "yield", turn + 1),
                            Event("respond", "call", turn + 1) >>

\* lines 79-85: the first-turn branch up to the await of agent.respond.
BeginFirstTurn(t) ==
    /\ allow_interruptions' = FALSE
    /\ pc' = "first_respond"
    /\ calls' = calls \o << Event("listen", "yield", turn + 1),
                            EventF("respond", "call", turn + 1, FALSE) >>

\* The defensive check of lines 109-111 left out.
EnsureInterruptions_Skipped(flag) == flag

\* lines 109-111: the value of the flag after the defensive check.
EnsureInterruptions(flag) == IF ~flag THEN TRUE ELSE flag

\* lines 104-116: the subsequent-turn branch up to the await of agent.tts.stop.
BeginSubsequentTurn(t) ==
    /\ allow_interruptions' = EnsureInterruptions(allow_interruptions)
    /\ pc' = "tts_stop"
    /\ calls' = calls \o << Event("listen", "yield", turn + 1),
                            EventF("tts.stop", "call", turn + 1, allow_interruptions') >>

\* line 75 yields the utterance t; lines 76-79 choose the branch.
ListenYields(t) ==
    /\ pc = "listen"
    /\ turn < MaxUtterances
    /\ turn' = turn + 1
    /\ text' = t
    /\ IF ~first_response_done
       THEN BeginFirstTurn(t)
       ELSE BeginSubsequentTurn(t)
    /\ UNCHANGED <<agent_created, first_response_done, response, collected>>

\* agent.listen() is exhausted: the loop ends and entrypoint returns.
ListenEnds ==
    /\ pc = "listen"
    /\ pc' = "done"
    /\ calls' = Append(calls, Event("listen", "end", turn))
    /\ UNCHANGED <<agent_created, first_response_done, allow_interruptions,
                   turn, text, response, collected>>

\* agent.listen() raises: line 75 is in no try block.
ListenRaises ==
    /\ pc = "listen"
    /\ Propagate("listen", turn)
    /\ UNCHANGED <<agent_created, first_response_done, allow_interruptions,
                   turn, text, response, collected>>

\* lines 93-96 without line 93.
MarkFirstResponseDone_NotMarked ==
    /\ first_response_done' = first_response_done
    /\ allow_interruptions' = TRUE

\* lines 93-96: the first reply was delivered.
MarkFirstResponseDone ==
    /\ first_response_done' = TRUE
    /\ allow_interruptions' = TRUE

\* The except clause without line 102: a failed first turn is taken again.
ExceptFirstResponse_NotMarked ==
    /\ first_response_done' = first_response_done
    /\ allow_interruptions' = TRUE

\* The except clause leaving the flag as line 81 set it.
ExceptFirstResponse_Nothing ==
    /\ first_response_done' = TRUE
    /\ allow_interruptions' = FALSE

\* The except clause without line 103.
ExceptFirstResponse_StaysDisabled ==
    /\ first_response_done' = TRUE
    /\ allow_interruptions' = allow_interruptions

\* lines 100-103: the except clause of the first turn.
ExceptFirstResponse ==
    /\ first_response_done' = TRUE
    /\ allow_interruptions' = TRUE

\* line 85 completes: line 89 is awaited, or the except clause runs.
FirstRespondReturns(o, r) ==
    /\ pc = "first_respond"
    /\ IF o = "ok"
       THEN /\ response' = r
            /\ pc' = "first_say"
            /\ calls' = calls \o << Event("respond", "ok", turn),
                                    SayCall(turn, FALSE, allow_interruptions) >>
            /\ UNCHANGED <<first_response_done, allow_interruptions>>
       ELSE /\ ExceptFirstResponse
            /\ AwaitListen(<< Event("respond", "exc", turn) >>, allow_interruptions')
            /\ UNCHANGED response
    /\ UNCHANGED <<agent_created, turn, text, collected>>

\* line 89 completes: lines 90-98, or the except clause; then the next utterance.
FirstSayReturns(o) ==
    /\ pc = "first_say"
    /\ IF o = "ok"
       THEN /\ MarkFirstResponseDone
            /\ AwaitListen(<< Event("say", "ok", turn) >>, allow_interruptions')
       ELSE /\ ExceptFirstResponse
            /\ AwaitListen(<< Event("say", "exc", turn) >>, allow_interruptions')
    /\ UNCHANGED <<agent_created, turn, text, response, collected>>

\* lines 114-119 without the except clause swallowing: a failed tts.stop ends the turn.
TtsStopReturns_FailureSkips(o) ==
    /\ pc = "tts_stop"
    /\ IF o = "ok"
       THEN /\ pc' = "respond"
            /\ calls' = calls \o << Event("tts.stop", o, turn),
                                    Event("respond", "call", turn) >>
       ELSE AwaitListen(<< Event("tts.stop", o, turn) >>, allow_interruptions)
    /\ UNCHANGED <<agent_created, first_response_done, allow_interruptions,
                   turn, text, response, collected>>

\* line 116 completes; lines 117-119 log either outcome, line 123 is awaited.
TtsStopReturns(o) ==
    /\ pc = "tts_stop"
    /\ pc' = "respond"
    /\ calls' = calls \o << Event("tts.stop", o, turn),
                            Event("respond", "call", turn) >>
    /\ UNCHANGED <<agent_created, first_response_done, allow_interruptions,
                   turn, text, response, collected>>

\* line 126 speaking with allow_interruptions=False, as line 89 does.
RespondReturns_SayDisabled(o, r) ==
    /\ pc = "respond"
    /\ IF o = "ok"
       THEN /\ response' = r
            /\ pc' = "say"
            /\ calls' = calls \o << Event("respond", "ok", turn),
                                    SayCall(turn, FALSE, allow_interruptions) >>
       ELSE /\ AwaitListen(<< Event("respond", "exc", turn) >>, allow_interruptions)
            /\ UNCHANGED response
    /\ UNCHANGED <<agent_created, first_response_done, allow_interruptions,
                   turn, text, collected>>

\* lines 121-131 without the try: a failure of agent.respond leaves entrypoint.
RespondReturns_Uncaught(o, r) ==
    /\ pc = "respond"
    /\ IF o = "ok"
       THEN /\ response' = r
            /\ pc' = "say"
            /\ calls' = calls \o << Event("respond", "ok", turn),
                                    SayCall(turn, TRUE, allow_interruptions) >>
       ELSE /\ Propagate("respond", turn)
            /\ UNCHANGED response
    /\ UNCHANGED <<agent_created, first_response_done, allow_interruptions,
                   turn, text, collected>>

\* line 123 completes: line 126 is awaited, or the except clause of line 130 runs.
RespondReturns(o, r) ==
    /\ pc = "respond"
    /\ IF o = "ok"
       THEN /\ response' = r
            /\ pc' = "say"
            /\ calls' = calls \o << Event("respond", "ok", turn),
                                    SayCall(turn, TRUE, allow_interruptions) >>
       ELSE /\ AwaitListen(<< Event("respond", "exc", turn) >>, allow_interruptions)
            /\ UNCHANGED response
    /\ UNCHANGED <<agent_created, first_response_done, allow_interruptions,
                   turn, text, collected>>

\* line 126 completes: lines 127-128, or the except clause; then the next utterance.
SayReturns(o) ==
    /\ pc = "say"
    /\ AwaitListen(<< Event("say", o, turn) >>, allow_interruptions)
    /\ UNCHANGED <<agent_created, first_response_done, allow_interruptions,
                   turn, text, response, collected>>

\* The metrics callback also assigning the agent's flag.
on_metrics_collected_WritesFlag ==
    /\ agent_created
    /\ pc \in {"greeting", "listen"} \cup TurnPcs
    /\ collected < MaxMetrics
    /\ collected' = collected + 1
    /\ allow_interruptions' = TRUE
    /\ UNCHANGED <<pc, agent_created, first_response_done,
                   turn, text, response, calls>>

\* lines 58-61: the metrics callback, run by the event loop while entrypoint
\* is suspended.
on_metrics_collected ==
    /\ agent_created
    /\ pc \in {"greeting", "listen"} \cup TurnPcs
    /\ collected < MaxMetrics
    /\ collected' = collected + 1
    /\ UNCHANGED <<pc, agent_created, first_response_done, allow_interruptions,
                   turn, text, response, calls>>

\* Not code of entrypoint: something else holding the agent assigns
\* agent.allow_interruptions between two turns, while entrypoint waits for
\* the next utterance.
ExternalWrite(b) ==
    /\ pc = "listen"
    /\ allow_interruptions' = b
    /\ allow_interruptions' # allow_interruptions
    /\ UNCHANGED <<pc, agent_created, first_response_done,
                   turn, text, response, collected, calls>>

Next ==
    \/ \E o \in Outcomes : ConnectReturns(o)
    \/ \E o, s \in Outcomes : ParticipantJoins(o, s)
    \/ \E o \in Outcomes : GreetingReturns(o)
    \/ \E t \in Texts : ListenYields(t)
    \/ ListenEnds
    \/ ListenRaises
    \/ \E o \in Outcomes, r \in Responses : FirstRespondReturns(o, r)
    \/ \E o \in Outcomes : FirstSayReturns(o)
    \/ \E o \in Outcomes : TtsStopReturns(o)
    \/ \E o \in Outcomes, r \in Responses : RespondReturns(o, r)
    \/ \E o \in Outcomes : SayReturns(o)
    \/ on_metrics_collected

\* The session as the code of entrypoint runs it.
Spec == Init /\ [][Next]_vars

NextEnv ==
    \/ Next
    \/ \E b \in BOOLEAN : ExternalWrite(b)

\* The session with an outside writer of agent.allow_interruptions.
SpecEnv == Init /\ [][NextEnv]_vars

(***************************************************************************)
(* Reading the history.                                                    *)
(***************************************************************************)
Idx == 1..Len(calls)

IsEv(e, op, ev) == e.op = op /\ e.ev = ev

\* The events that end the handling of an utterance.
EndsTurn(e) == IsEv(e, "say", "ok") \/ IsEv(e, "say", "exc") \/ IsEv(e, "respond", "exc")

\* Some event of turn t is (op, ev).
Happened(op, ev, t) == \E i \in Idx : IsEv(calls[i], op, ev) /\ calls[i].turn = t

(***************************************************************************)
(* C1: while the first utterance is handled, agent.allow_interruptions is  *)
(* false from the call of agent.respond until agent.say has returned or    *)
(* raised, and agent.say is called with allow_interruptions=False; also    *)
(* when the flag was set from outside while the utterance was awaited.     *)
(***************************************************************************)
C1_FirstTurnNotInterruptible ==
    /\ pc \in FirstPcs => allow_interruptions = FALSE
    /\ \A i \in Idx :
          (calls[i].turn = 1 /\ calls[i].op \in {"respond", "say"}) =>
             /\ calls[i].flag = FALSE
             /\ IsEv(calls[i], "say", "call") => calls[i].allow_interruptions = FALSE

\* The first reply was delivered in a session where the flag had been set
\* from outside before the first utterance arrived.
C1_Witness ==
    /\ Happened("say", "ok", 1)
    /\ \E i \in Idx : IsEv(calls[i], "listen", "yield") /\ calls[i].turn = 1
                      /\ calls[i].flag = TRUE

(***************************************************************************)
(* C2: once the first utterance has been handled, with or without a        *)
(* failure, interruptions are enabled: the flag is true when the loop      *)
(* waits for the second utterance, and in every later turn it is true when *)
(* agent.respond is called and agent.say is called with                    *)
(* allow_interruptions=True.                                               *)
(***************************************************************************)
C2_SubsequentTurnsInterruptible ==
    \A i \in Idx :
       /\ (IsEv(calls[i], "listen", "call") /\ calls[i].turn = 1) => calls[i].flag = TRUE
       /\ (IsEv(calls[i], "respond", "call") /\ calls[i].turn >= 2) => calls[i].flag = TRUE
       /\ (IsEv(calls[i], "say", "call") /\ calls[i].turn >= 2) =>
             calls[i].allow_interruptions = TRUE

\* The first turn failed and the replies of the second and third utterance
\* are spoken.
C2_Witness ==
    /\ Happened("respond", "exc", 1)
    /\ Happened("say", "ok", 2)
    /\ Happened("say", "call", 3)

(***************************************************************************)
(* C3: when agent.respond or agent.say raises while the first utterance is *)
(* handled, the loop waits for the next utterance with                     *)
(* first_response_done = TRUE and agent.allow_interruptions = TRUE.        *)
(***************************************************************************)
FirstTurnFailed ==
    /\ pc = "listen"
    /\ turn = 1
    /\ Len(calls) >= 2
    /\ calls[Len(calls) - 1].ev = "exc"
    /\ calls[Len(calls) - 1].op \in {"respond", "say"}

C3_FirstFailureUnlocks ==
    FirstTurnFailed => (first_response_done = TRUE /\ allow_interruptions = TRUE)

\* agent.say raised while the first reply was spoken.
C3_Witness == FirstTurnFailed /\ Happened("say", "exc", 1)

(***************************************************************************)
(* C4: an exception of agent.respond, agent.say or agent.tts.stop raised   *)
(* in a turn never leaves entrypoint: the coroutine goes on to its next    *)
(* await (agent.respond after a failed tts.stop, the next utterance        *)
(* otherwise), and entrypoint is left by an exception only from            *)
(* connecting, waiting for the participant, starting the agent, the        *)
(* greeting or agent.listen itself.                                        *)
(***************************************************************************)
TurnFailure(e) ==
    /\ e.ev = "exc"
    /\ e.turn >= 1
    /\ e.op \in {"respond", "say", "tts.stop"}

C4_TurnFailuresAreCaught ==
    /\ \A i \in Idx :
          TurnFailure(calls[i]) =>
             /\ i < Len(calls)
             /\ calls[i + 1].ev = "call"
             /\ calls[i + 1].op = (IF calls[i].op = "tts.stop" THEN "respond" ELSE "listen")
    /\ pc = "raised" => ~TurnFailure(Last(calls))
    /\ \A i \in Idx :
          IsEv(calls[i], "listen", "yield") =>
             /\ i < Len(calls)
             /\ IsEv(calls[i + 1], IF calls[i].turn = 1 THEN "respond" ELSE "tts.stop", "call")

\* Every kind of failure has happened and the third utterance is answered.
C4_Witness ==
    /\ Happened("say", "exc", 1)
    /\ Happened("tts.stop", "exc", 2)
    /\ Happened("respond", "exc", 2)
    /\ Happened("say", "ok", 3)

(***************************************************************************)
(* C5: a turn after the first that begins with agent.allow_interruptions   *)
(* false has the flag true when agent.tts.stop and agent.respond are       *)
(* called, and for the rest of the turn.                                   *)
(***************************************************************************)
BeganDisabled(i) ==
    /\ IsEv(calls[i], "listen", "yield")
    /\ calls[i].turn >= 2
    /\ calls[i].flag = FALSE

C5_ReenabledBeforeResponding ==
    \A i \in Idx :
       BeganDisabled(i) =>
          \A j \in Idx :
             (j > i /\ calls[j].turn = calls[i].turn /\ calls[j].op # "listen") =>
                calls[j].flag = TRUE

\* A later turn began with the flag cleared and its reply was generated.
C5_Witness ==
    \E i \in Idx :
       /\ BeganDisabled(i)
       /\ Happened("tts.stop", "call", calls[i].turn)
       /\ Happened("respond", "ok", calls[i].turn)

(***************************************************************************)
(* C6: every turn after the first runs in the order: flag ensured true,    *)
(* agent.tts.stop called, agent.respond called, agent.say called with      *)
(* allow_interruptions=True.  agent.respond is called only after           *)
(* agent.tts.stop has returned or raised, and after either outcome.        *)
(***************************************************************************)
Completed(e, op, t) == e.op = op /\ e.ev \in {"ok", "exc"} /\ e.turn = t

SubsequentTurnOrder(i) ==
    LET t == calls[i].turn
        n == Len(calls)
    IN  /\ i + 1 <= n
        /\ IsEv(calls[i + 1], "tts.stop", "call")
        /\ calls[i + 1].turn = t
        /\ calls[i + 1].flag = TRUE
        /\ i + 2 <= n =>
              /\ Completed(calls[i + 2], "tts.stop", t)
              /\ i + 3 <= n
              /\ IsEv(calls[i + 3], "respond", "call")
              /\ calls[i + 3].turn = t
        /\ i + 4 <= n =>
              /\ Completed(calls[i + 4], "respond", t)
              /\ i + 5 <= n
              /\ IF calls[i + 4].ev = "ok"
                 THEN /\ IsEv(calls[i + 5], "say", "call")
                      /\ calls[i + 5].turn = t
                      /\ calls[i + 5].allow_interruptions = TRUE
                 ELSE IsEv(calls[i + 5], "listen", "call")

C6_SubsequentTurnOrder ==
    \A i \in Idx :
       /\ (IsEv(calls[i], "listen", "yield") /\ calls[i].turn >= 2) => SubsequentTurnOrder(i)
       /\ (IsEv(calls[i], "respond", "call") /\ calls[i].turn >= 2) =>
             (i > 1 /\ Completed(calls[i - 1], "tts.stop", calls[i].turn))
       /\ (IsEv(calls[i], "say", "call") /\ calls[i].turn >= 2) =>
             (i > 1 /\ IsEv(calls[i - 1], "respond", "ok"))

\* agent.tts.stop raised in the second turn and the reply was still spoken.
C6_Witness ==
    /\ Happened("tts.stop", "exc", 2)
    /\ Happened("say", "ok", 2)

(***************************************************************************)
(* C7: a session starts with connect, wait_for_participant, agent.start    *)
(* and the greeting agent.say(allow_interruptions=False), each begun after *)
(* the one before has returned; agent.listen yields nothing and no reply   *)
(* is generated before the greeting's agent.say has returned.              *)
(***************************************************************************)
StartupOrder ==
    << <<"connect", "call">>, <<"connect", "ok">>,
       <<"wait_for_participant", "call">>, <<"wait_for_participant", "ok">>,
       <<"start", "call">>, <<"start", "ok">>,
       <<"say", "call">>, <<"say", "ok">> >>

C7_StartupOrder ==
    /\ \A i \in Idx :
          IF i <= Len(StartupOrder)
          THEN /\ calls[i].op = StartupOrder[i][1]
               /\ calls[i].turn = 0
               /\ \/ calls[i].ev = StartupOrder[i][2]
                  \/ calls[i].ev = "exc" /\ i = Len(calls) /\ pc = "raised"
          ELSE calls[i].op \in {"listen", "respond", "tts.stop"} \/ calls[i].turn >= 1
    /\ Len(calls) >= 7 => calls[7].allow_interruptions = FALSE
    /\ (turn >= 1 \/ pc \in {"listen", "done"} \cup TurnPcs) =>
          (Len(calls) > Len(StartupOrder) /\ IsEv(calls[8], "say", "ok"))

\* The first utterance is being answered.
C7_Witness == pc = "first_respond" /\ turn = 1

(***************************************************************************)
(* C8: first_response_done is false at session start and until the first   *)
(* utterance arrives, is true once the first reply has been spoken, and    *)
(* once true never becomes false again.                                    *)
(***************************************************************************)
C8_FirstResponseDoneLatch ==
    /\ first_response_done = FALSE
    /\ [](turn = 0 => first_response_done = FALSE)
    /\ [](\A i \in Idx : (IsEv(calls[i], "say", "ok") /\ calls[i].turn >= 1) =>
                              first_response_done = TRUE)
    /\ [][first_response_done => first_response_done']_vars

\* The flag is set and failures have followed the first reply.
C8_Witness ==
    /\ first_response_done
    /\ Happened("say", "ok", 1)
    /\ Happened("respond", "exc", 2)
    /\ Happened("say", "exc", 3)

(***************************************************************************)
(* C9: utterances are handled one at a time: agent.listen yields utterance *)
(* n+1 only after the handling of utterance n has ended (its say returned  *)
(* or raised, or its respond raised), the events of the turns never        *)
(* interleave, and first_response_done and agent.allow_interruptions       *)
(* change only in steps of entrypoint, never in the metrics callback.      *)
(***************************************************************************)
TurnsDoNotInterleave ==
    /\ \A i \in Idx :
          IsEv(calls[i], "listen", "yield") =>
             /\ i > 2
             /\ IsEv(calls[i - 1], "listen", "call")
             /\ EndsTurn(calls[i - 2])
             /\ calls[i - 2].turn = calls[i].turn - 1
    /\ \A i, j \in Idx : i < j => calls[i].turn <= calls[j].turn
    /\ pc \in TurnPcs => (Last(calls).turn = turn /\ Last(calls).ev = "call")

C9_SingleFlow ==
    /\ []TurnsDoNotInterleave
    /\ [][(first_response_done' # first_response_done
            \/ allow_interruptions' # allow_interruptions)
          => (calls' # calls /\ pc \in FirstPcs /\ pc' = "listen")]_vars

\* The metrics callback ran and the third utterance is handled after a
\* completed second turn.
C9_Witness ==
    /\ collected >= 1
    /\ Happened("say", "ok", 2)
    /\ turn = 3
    /\ pc \in SubsequentPcs

(***************************************************************************)
(* C10: with no writer of the flag other than entrypoint, at every await   *)
(* agent.allow_interruptions = first_response_done: false during the       *)
(* greeting and the first turn, true in every later turn.                  *)
(***************************************************************************)
C10_FlagFollowsFirstResponse ==
    /\ (agent_created /\ pc \in SuspendedPcs) =>
          allow_interruptions = first_response_done
    /\ pc \in {"greeting"} \cup FirstPcs => allow_interruptions = FALSE
    /\ pc \in SubsequentPcs => allow_interruptions = TRUE

\* A later turn speaks its reply after the first turn failed.
C10_Witness ==
    /\ pc = "say"
    /\ Happened("say", "exc", 1)

(***************************************************************************)
(* C11: the first-turn branch handles the first utterance and no other,    *)
(* also when the first turn failed: agent.say is called with               *)
(* allow_interruptions=False at most twice in a session, for the greeting  *)
(* and for the first reply, and agent.tts.stop is never called while the   *)
(* first utterance is handled.                                             *)
(***************************************************************************)
UninterruptibleSays ==
    {i \in Idx : IsEv(calls[i], "say", "call") /\ calls[i].allow_interruptions = FALSE}

C11_FirstBranchOnlyOnce ==
    /\ Cardinality(UninterruptibleSays) <= 2
    /\ \A i \in UninterruptibleSays : calls[i].turn \in {0, 1}
    /\ \A i \in Idx : calls[i].op = "tts.stop" => calls[i].turn >= 2
    /\ \A i \in Idx :
          (IsEv(calls[i], "listen", "yield") /\ i < Len(calls)) =>
             IsEv(calls[i + 1], IF calls[i].turn = 1 THEN "respond" ELSE "tts.stop", "call")
    /\ pc \in FirstPcs => turn = 1
    /\ pc \in SubsequentPcs => turn >= 2

\* The first reply failed while spoken, and two more utterances were taken
\* by the other branch.
C11_Witness ==
    /\ Happened("say", "exc", 1)
    /\ Happened("tts.stop", "call", 2)
    /\ Happened("tts.stop", "call", 3)
    /\ Cardinality(UninterruptibleSays) = 2

(***************************************************************************)
(* C12: an exception raised by ctx.connect, ctx.wait_for_participant or    *)
(* the greeting's agent.say leaves entrypoint: it is the last thing the    *)
(* session does, agent.listen is never asked for an utterance and no       *)
(* utterance is processed.                                                 *)
(***************************************************************************)
StartupFailure(e) ==
    /\ e.ev = "exc"
    /\ e.turn = 0
    /\ e.op \in {"connect", "wait_for_participant", "say"}

C12_StartupFailuresPropagate ==
    \A i \in Idx :
       StartupFailure(calls[i]) =>
          /\ i = Len(calls)
          /\ pc = "raised"
          /\ turn = 0
          /\ \A j \in Idx : calls[j].op \notin {"listen", "respond", "tts.stop"}

\* The greeting raised.
C12_Witness ==
    /\ pc = "raised"
    /\ Happened("say", "exc", 0)
====
